---- MODULE Spec2Model ----
(***************************************************************************)
(* A model of DiffRhythm's multilingual grapheme-to-phoneme front end:     *)
(*   g2p/g2p_generation.py  character classes, get_segment, chn_eng_g2p    *)
(*   g2p/g2p/cleaners.py    cjekfd_cleaners (per-language dispatch)        *)
(*   g2p/g2p/spanish.py     the rule-based Spanish engine and special_map  *)
(*                                                                         *)
(* Text is a sequence of Unicode code points (the source compares          *)
(* characters by code point); phoneme strings are sequences of one-        *)
(* character strings.  Each run of the model performs one operation `op`   *)
(* on one input chosen in Init.                                            *)
(***************************************************************************)
EXTENDS Integers, Sequences, FiniteSets, TLC

VARIABLES
    op,           \* the operation this run performs
    pc,           \* position in that operation
    text,         \* the input text (code points)
    types,        \* get_segment: per-character tags after the second pass
    segments,     \* get_segment: the returned list of (text, language)
    index,        \* chn_eng_g2p: loop index (1-based)
    all_phoneme,  \* chn_eng_g2p: accumulated phoneme string
    all_tokens,   \* chn_eng_g2p: accumulated token list
    acc_phoneme,  \* history: all_phoneme before end trimming
    acc_tokens,   \* history: all_tokens before end trimming
    err,          \* the exception raised ("" when none)
    calls,        \* history: tokenizer keys used by each cjekfd_cleaners call
    sm_text,      \* special_map: the phoneme text being rewritten
    sm_rule,      \* special_map: index of the rule of _special_map in the for loop
    sm_pass,      \* 1: special_map(x) is running; 2: special_map(special_map(x))
    sm_first,     \* the value special_map(x) returned
    es_word_out,  \* spanish_text_to_phonemes: the list returned for each word
    es_out        \* spanish_text_to_phonemes: the returned string, as tokens

vars == <<op, pc, text, types, segments, index, all_phoneme, all_tokens,
          acc_phoneme, acc_tokens, err, calls,
          sm_text, sm_rule, sm_pass, sm_first, es_word_out, es_out>>

----------------------------------------------------------------------------
(* Bounds of the model *)

MaxLen == 4          \* longest text given to get_segment alone
MaxDispatchLen == 2  \* longest text given to chn_eng_g2p
MaxPhonemeLen == 2   \* longest phoneme string a phonemizer call returns
MaxMapLen == 4       \* longest phoneme string given to special_map, in characters
MaxMapTokens == 4    \* longest phoneme string given to special_map, in tokens
MaxWords == 2        \* most words in a text given to spanish_text_to_phonemes
MaxWordLen == 4      \* longest text over one of the small Spanish alphabets

----------------------------------------------------------------------------
(* Characters, named by code point *)

ch == [ zh1 |-> 20320,  \* U+4F60, a CJK ideograph
        zh2 |-> 22909,  \* U+597D, a CJK ideograph
        a |-> 97, b |-> 98, c |-> 99, d |-> 100, e |-> 101, f |->
        102, g |-> 103, h |-> 104, i |-> 105, j |-> 106, k |->
        107, l |-> 108, m |-> 109, n |-> 110, o |-> 111, p |->
        112, q |-> 113, r |-> 114, s |-> 115, t |-> 116, u |->
        117, v |-> 118, w |-> 119, x |-> 120, y |-> 121, z |-> 122,
        M |-> 77,
        a_ |-> 225, e_ |-> 233, i_ |-> 237, o_ |-> 243, u_ |-> 250,  \* acute
        uu |-> 252,     \* u with diaeresis
        nn |-> 241,     \* n with tilde
        A_ |-> 193, E_ |-> 201, I_ |-> 205, O_ |-> 211, U_ |-> 218,
        UU |-> 220, NN |-> 209,
        cc |-> 231,     \* c with cedilla: a letter that is no Spanish character
        sp |-> 32, bang |-> 33, us |-> 95,
        five |-> 53,    \* the digit 5
        comma |-> 65292 ]  \* U+FF0C, the fullwidth comma

\* The texts of the segmenter runs: one character of each class the code
\* distinguishes (CJK, Spanish-specific, ASCII letter, a letter of neither
\* kind, a non-letter).
SegChars == {ch.zh1, ch.nn, ch.a, ch.cc, ch.sp}

\* Two longer texts of the segmenter runs: "hola mundo", and two ideographs
\* and a fullwidth comma followed by "hello world".
HolaMundo == <<ch.h, ch.o, ch.l, ch.a, ch.sp, ch.m, ch.u, ch.n, ch.d, ch.o>>

NiHaoHelloWorld ==
    <<ch.zh1, ch.zh2, ch.comma, ch.h, ch.e, ch.l, ch.l, ch.o, ch.sp,
      ch.w, ch.o, ch.r, ch.l, ch.d>>

RECURSIVE SeqsUpTo(_, _)
SeqsUpTo(S, n) ==
    IF n = 0 THEN {<<>>}
    ELSE LET shorter == SeqsUpTo(S, n - 1)
         IN  shorter \cup {Append(s, x) : s \in shorter, x \in S}

----------------------------------------------------------------------------
(* g2p_generation.py: character classes *)

is_chinese(c) == c >= 19968 /\ c <= 40869

is_alphabet(c) == (c >= 65 /\ c <= 90) \/ (c >= 97 /\ c <= 122)

is_spanish(c) ==
    c \in {ch.a_, ch.e_, ch.i_, ch.o_, ch.u_, ch.uu, ch.nn,
           ch.A_, ch.E_, ch.I_, ch.O_, ch.U_, ch.UU, ch.NN}

is_other(c) == ~(is_chinese(c) \/ is_alphabet(c) \/ is_spanish(c))

\* str.isalpha(), on the code points up to U+00FF and the CJK ideographs
isalpha(c) ==
    \/ (c >= 65 /\ c <= 90) \/ (c >= 97 /\ c <= 122)
    \/ c \in {170, 181, 186}
    \/ (c >= 192 /\ c <= 214) \/ (c >= 216 /\ c <= 246) \/ (c >= 248 /\ c <= 255)
    \/ (c >= 19968 /\ c <= 40959)

----------------------------------------------------------------------------
(* g2p_generation.py: get_segment *)

\* The tag the first loop appends for character i, given the tags so far.
FirstPassTag(txt, tps, i) ==
    IF is_chinese(txt[i]) THEN "zh"
    ELSE IF is_spanish(txt[i]) THEN "es"
    ELSE IF is_alphabet(txt[i]) THEN
             IF i > 1 /\ tps[i - 1] = "es" THEN "es"
             ELSE IF i < Len(txt) /\ is_spanish(txt[i + 1]) THEN "es"
             ELSE "en"
    ELSE "other"

RECURSIVE FirstPassFrom(_, _, _)
FirstPassFrom(txt, tps, i) ==
    IF i > Len(txt) THEN tps
    ELSE FirstPassFrom(txt, Append(tps, FirstPassTag(txt, tps, i)), i + 1)

FirstPass(txt) == FirstPassFrom(txt, <<>>, 1)

\* MarkWord retagging only from the first es tag of the word on.
MarkWordFromFirstSpanish(tps, lo, hi) ==
    [j \in 1..Len(tps) |->
        IF j >= lo /\ j < hi /\ tps[j] \in {"en", "es"}
           /\ \E k \in lo..j : tps[k] = "es"
        THEN "es" ELSE tps[j]]

\* MarkWord without the test that the word holds an es tag.
MarkWordAlways(tps, lo, hi) ==
    [j \in 1..Len(tps) |->
        IF j >= lo /\ j < hi /\ tps[j] \in {"en", "es"} THEN "es" ELSE tps[j]]

\* "Mark the entire word as Spanish": positions lo..hi-1, only en and es tags.
MarkWord(tps, lo, hi) ==
    IF \E j \in lo..(hi - 1) : tps[j] = "es"
    THEN [j \in 1..Len(tps) |->
            IF j >= lo /\ j < hi /\ tps[j] \in {"en", "es"} THEN "es" ELSE tps[j]]
    ELSE tps

\* FinalWord with the block left out: a word that ends the text is never
\* marked.
FinalWordSkipped(txt, tps, word_start, in_word) == tps

\* "Handle final word if text ends with a word"
FinalWord(txt, tps, word_start, in_word) ==
    IF in_word THEN MarkWord(tps, word_start, Len(txt) + 1) ELSE tps

\* The second loop, from position i, followed by the handling of a final word.
RECURSIVE SecondPassFrom(_, _, _, _, _)
SecondPassFrom(txt, tps, i, word_start, in_word) ==
    IF i > Len(txt) THEN FinalWord(txt, tps, word_start, in_word)
    ELSE IF isalpha(txt[i])
         THEN IF ~in_word
              THEN SecondPassFrom(txt, tps, i + 1, i, TRUE)
              ELSE SecondPassFrom(txt, tps, i + 1, word_start, in_word)
         ELSE IF in_word
              THEN SecondPassFrom(txt, MarkWord(tps, word_start, i), i + 1,
                                  word_start, FALSE)
              ELSE SecondPassFrom(txt, tps, i + 1, word_start, in_word)

SecondPass(txt) == SecondPassFrom(txt, FirstPass(txt), 1, 1, FALSE)

Seg(s, l) == [text |-> s, lang |-> l]

\* MergeStep with the character that opens a new segment lost (temp_seg = "").
MergeStepDropsChar(txt, tps, i, m) ==
    IF m.flag = 0 \/ m.temp_lang = "other" \/ tps[i] = m.temp_lang \/ tps[i] = "other"
    THEN [m EXCEPT !.temp_seg = Append(m.temp_seg, txt[i]),
                   !.temp_lang = IF m.flag = 0 \/ m.temp_lang = "other"
                                 THEN tps[i] ELSE m.temp_lang,
                   !.flag = 1]
    ELSE [m EXCEPT !.segs = Append(m.segs, Seg(m.temp_seg, m.temp_lang)),
                   !.temp_seg = <<>>, !.temp_lang = tps[i], !.flag = 1]

\* MergeStep without the branch for temp_lang == "other": a run of Other
\* characters that opens the text is closed as a segment of its own by the
\* first character of a language.
MergeStepOtherKept(txt, tps, i, m) ==
    IF m.flag = 0
    THEN [m EXCEPT !.temp_seg = Append(m.temp_seg, txt[i]),
                   !.temp_lang = tps[i], !.flag = 1]
    ELSE IF tps[i] = m.temp_lang \/ tps[i] = "other"
         THEN [m EXCEPT !.temp_seg = Append(m.temp_seg, txt[i])]
         ELSE [m EXCEPT !.segs = Append(m.segs, Seg(m.temp_seg, m.temp_lang)),
                        !.temp_seg = <<txt[i]>>,
                        !.temp_lang = tps[i], !.flag = 1]

\* MergeStep without the branch for types[i] == "other": an Other character
\* after a segment of a language closes that segment and opens its own.
MergeStepOtherOpens(txt, tps, i, m) ==
    IF m.flag = 0
    THEN [m EXCEPT !.temp_seg = Append(m.temp_seg, txt[i]),
                   !.temp_lang = tps[i], !.flag = 1]
    ELSE IF m.temp_lang = "other"
         THEN [m EXCEPT !.temp_seg = Append(m.temp_seg, txt[i]),
                        !.temp_lang = tps[i]]
         ELSE IF tps[i] = m.temp_lang
              THEN [m EXCEPT !.temp_seg = Append(m.temp_seg, txt[i])]
              ELSE [m EXCEPT !.segs = Append(m.segs, Seg(m.temp_seg, m.temp_lang)),
                             !.temp_seg = <<txt[i]>>,
                             !.temp_lang = tps[i], !.flag = 1]

\* One iteration of the merge loop at position i, on the loop's variables
\* m = [segs, temp_seg, temp_lang, flag].
MergeStep(txt, tps, i, m) ==
    IF m.flag = 0
    THEN [m EXCEPT !.temp_seg = Append(m.temp_seg, txt[i]),
                   !.temp_lang = tps[i], !.flag = 1]
    ELSE IF m.temp_lang = "other"
         THEN [m EXCEPT !.temp_seg = Append(m.temp_seg, txt[i]),
                        !.temp_lang = tps[i]]
         ELSE IF tps[i] = m.temp_lang \/ tps[i] = "other"
              THEN [m EXCEPT !.temp_seg = Append(m.temp_seg, txt[i])]
              ELSE [m EXCEPT !.segs = Append(m.segs, Seg(m.temp_seg, m.temp_lang)),
                             !.temp_seg = <<txt[i]>>,
                             !.temp_lang = tps[i], !.flag = 1]

\* MergeFrom with the final append made only for a segment that is not empty.
RECURSIVE MergeFromSkipsEmpty(_, _, _, _)
MergeFromSkipsEmpty(txt, tps, i, m) ==
    IF i > Len(tps)
    THEN (IF m.temp_seg = <<>> THEN m.segs
          ELSE Append(m.segs, Seg(m.temp_seg, m.temp_lang)))
    ELSE MergeFromSkipsEmpty(txt, tps, i + 1, MergeStep(txt, tps, i, m))

\* The merge loop from position i; the final append is unconditional.
RECURSIVE MergeFrom(_, _, _, _)
MergeFrom(txt, tps, i, m) ==
    IF i > Len(tps) THEN Append(m.segs, Seg(m.temp_seg, m.temp_lang))
    ELSE MergeFrom(txt, tps, i + 1, MergeStep(txt, tps, i, m))

Merge(txt, tps) ==
    MergeFrom(txt, tps, 1,
              [segs |-> <<>>, temp_seg |-> <<>>, temp_lang |-> "", flag |-> 0])

get_segment(txt) == Merge(txt, SecondPass(txt))

----------------------------------------------------------------------------
(* cleaners.py: cjekfd_cleaners *)

Handled == {"zh", "en", "fr", "ko", "de", "es"}

\* The keys of text_tokenizers a call for `language` reads: `seq` for
\* text_to_sequence, `ipa` for the tokenizer handed to <language>_to_ipa.
CleanerKeys(language) ==
    CASE language = "zh" -> [lang |-> language, seq |-> "zh", ipa |-> "zh"]
      [] language = "en" -> [lang |-> language, seq |-> "en", ipa |-> "en"]
      [] language = "fr" -> [lang |-> language, seq |-> "fr", ipa |-> "fr"]
      [] language = "ko" -> [lang |-> language, seq |-> "ko", ipa |-> "ko"]
      [] language = "de" -> [lang |-> language, seq |-> "de", ipa |-> "de"]
      [] language = "es" -> [lang |-> language, seq |-> "es", ipa |-> "de"]

\* The `else` branch: raise Exception("Unknown language: ...")
CleanerRaises(language) == language \notin Handled

\* What text_tokenizer.tokenize may return for a handled language: any
\* phoneme string over a phoneme character and the word-boundary marker,
\* the empty string included, and any token list.
PhonemeOutputs == SeqsUpTo({"a", "_"}, MaxPhonemeLen)

TokenOutputs == {<<>>, <<7>>}

\* The languages cjekfd_cleaners is called with directly (fr, ko and de never
\* come out of get_segment), one of them unregistered.
DirectLanguages == Handled \cup {"other"}

----------------------------------------------------------------------------
(* spanish.py: _special_map and special_map *)

\* SpecialMapRules with the replacement of the P|L rule mistyped as B|L, which
\* the earlier B|L rule would have to rewrite.
SpecialMapRulesMistyped ==
    << [pat |-> <<"R","R">>, rep |-> <<"R","R">>],
       [pat |-> <<"N","Y">>, rep |-> <<"N","Y">>],
       [pat |-> <<"A","A","1">>, rep |-> <<"A","A","1">>],
       [pat |-> <<"E","H","1">>, rep |-> <<"E","H","1">>],
       [pat |-> <<"I","Y","1">>, rep |-> <<"I","Y","1">>],
       [pat |-> <<"O","W","1">>, rep |-> <<"O","W","1">>],
       [pat |-> <<"U","W","1">>, rep |-> <<"U","W","1">>],
       [pat |-> <<"S","|","I","Y","|","O","W","1","|","N">>,
        rep |-> <<"S","|","I","Y","|","O","W","1","|","N">>],
       [pat |-> <<"S","|","I","Y","|","A","A","1">>,
        rep |-> <<"S","|","I","Y","|","A","A","1">>],
       [pat |-> <<"B","|","L">>, rep |-> <<"B"," ","L">>],
       [pat |-> <<"P","|","L">>, rep |-> <<"B","|","L">>],
       [pat |-> <<"G","|","L">>, rep |-> <<"G"," ","L">>],
       [pat |-> <<"K","|","L">>, rep |-> <<"K"," ","L">>] >>

\* (pattern, replacement) pairs, in the order of the list.
SpecialMapRules ==
    << [pat |-> <<"R","R">>, rep |-> <<"R","R">>],
       [pat |-> <<"N","Y">>, rep |-> <<"N","Y">>],
       [pat |-> <<"A","A","1">>, rep |-> <<"A","A","1">>],
       [pat |-> <<"E","H","1">>, rep |-> <<"E","H","1">>],
       [pat |-> <<"I","Y","1">>, rep |-> <<"I","Y","1">>],
       [pat |-> <<"O","W","1">>, rep |-> <<"O","W","1">>],
       [pat |-> <<"U","W","1">>, rep |-> <<"U","W","1">>],
       [pat |-> <<"S","|","I","Y","|","O","W","1","|","N">>,
        rep |-> <<"S","|","I","Y","|","O","W","1","|","N">>],
       [pat |-> <<"S","|","I","Y","|","A","A","1">>,
        rep |-> <<"S","|","I","Y","|","A","A","1">>],
       [pat |-> <<"B","|","L">>, rep |-> <<"B"," ","L">>],
       [pat |-> <<"P","|","L">>, rep |-> <<"P"," ","L">>],
       [pat |-> <<"G","|","L">>, rep |-> <<"G"," ","L">>],
       [pat |-> <<"K","|","L">>, rep |-> <<"K"," ","L">>] >>

\* [_|] of the regular expression
Delims == {"_", "|"}

\* pat occurs in t at positions p .. p+Len(pat)-1
OccursAt(pat, t, p) ==
    /\ p >= 1 /\ p + Len(pat) - 1 <= Len(t)
    /\ \A k \in 1..Len(pat) : t[p + k - 1] = pat[k]

\* The match of r"(^|[_|])pat([_|]|$)" that starts at position p, as the
\* lengths of its two groups (ok is FALSE when there is none).  Group 1
\* tries ^ before [_|]; group 2 tries [_|] before $.
MatchAt(pat, t, p) ==
    LET tail(q) ==   \* group 2 at position q, the first position after pat
            IF q <= Len(t) /\ t[q] \in Delims THEN 1
            ELSE IF q = Len(t) + 1 THEN 0
            ELSE -1
    IN  IF p = 1 /\ OccursAt(pat, t, 1) /\ tail(1 + Len(pat)) >= 0
        THEN [ok |-> TRUE, g1 |-> 0, g2 |-> tail(1 + Len(pat))]
        ELSE IF p <= Len(t) /\ t[p] \in Delims /\ OccursAt(pat, t, p + 1)
                /\ tail(p + 1 + Len(pat)) >= 0
             THEN [ok |-> TRUE, g1 |-> 1, g2 |-> tail(p + 1 + Len(pat))]
             ELSE [ok |-> FALSE, g1 |-> 0, g2 |-> 0]

\* re.search(...): some position has a match
Search(pat, t) == \E p \in 1..Len(t) : MatchAt(pat, t, p).ok

\* re.sub(..., r"\1rep\2", t) from position p on: every non-overlapping match,
\* leftmost first, is replaced by group 1, rep, group 2.
RECURSIVE SubFrom(_, _, _, _)
SubFrom(pat, rep, t, p) ==
    IF p > Len(t) THEN <<>>
    ELSE LET m == MatchAt(pat, t, p)
         IN  IF ~m.ok
             THEN <<t[p]>> \o SubFrom(pat, rep, t, p + 1)
             ELSE LET q == p + m.g1 + Len(pat)   \* where group 2 starts
                  IN  SubSeq(t, p, p + m.g1 - 1) \o rep
                        \o SubSeq(t, q, q + m.g2 - 1)
                        \o SubFrom(pat, rep, t, q + m.g2)

Sub(pat, rep, t) == SubFrom(pat, rep, t, 1)

\* The phoneme strings given to special_map: every string of up to MaxMapLen
\* of these characters, and every string of up to MaxMapTokens of these
\* tokens with one delimiter between two tokens.
MapChars == {"R", "B", "P", "L", "|", "_"}

MapTokens == {<<"B">>, <<"P">>, <<"L">>, <<"R", "R">>}

RECURSIVE TokenTexts(_)
TokenTexts(n) ==
    IF n = 0 THEN {<<>>}
    ELSE LET shorter == TokenTexts(n - 1)
         IN  shorter \cup MapTokens
                \cup {t \o <<d>> \o k : t \in shorter \ {<<>>}, d \in Delims,
                                        k \in MapTokens}

MapTexts == SeqsUpTo(MapChars, MaxMapLen) \cup TokenTexts(MaxMapTokens)

----------------------------------------------------------------------------
(* spanish.py: the rule-based Spanish engine *)

\* _VOWELS (and the character class of _VOWEL_CLUSTER_RE)
Vowels == {ch.a, ch.e, ch.i, ch.o, ch.u, ch.a_, ch.e_, ch.i_, ch.o_, ch.u_, ch.uu}

\* _STRESSED_VOWELS
StressedVowels == {ch.a_, ch.e_, ch.i_, ch.o_, ch.u_}

\* _SPANISH_PHONEMES: character -> list item ("" for the silent h)
SpanishPhonemes ==
    << [key |-> ch.a, val |-> "AA"],
       [key |-> ch.e, val |-> "EH"],
       [key |-> ch.i, val |-> "IY"],
       [key |-> ch.o, val |-> "OW"],
       [key |-> ch.u, val |-> "UW"],
       [key |-> ch.a_, val |-> "AA1"],
       [key |-> ch.e_, val |-> "EH1"],
       [key |-> ch.i_, val |-> "IY1"],
       [key |-> ch.o_, val |-> "OW1"],
       [key |-> ch.u_, val |-> "UW1"],
       [key |-> ch.uu, val |-> "UW"],
       [key |-> ch.b, val |-> "B"],
       [key |-> ch.v, val |-> "B"],
       [key |-> ch.c, val |-> "K"],
       [key |-> ch.d, val |-> "D"],
       [key |-> ch.f, val |-> "F"],
       [key |-> ch.g, val |-> "G"],
       [key |-> ch.h, val |-> ""],
       [key |-> ch.j, val |-> "HH"],
       [key |-> ch.k, val |-> "K"],
       [key |-> ch.l, val |-> "L"],
       [key |-> ch.m, val |-> "M"],
       [key |-> ch.n, val |-> "N"],
       [key |-> ch.nn, val |-> "NY"],
       [key |-> ch.p, val |-> "P"],
       [key |-> ch.q, val |-> "K"],
       [key |-> ch.r, val |-> "R"],
       [key |-> ch.s, val |-> "S"],
       [key |-> ch.t, val |-> "T"],
       [key |-> ch.w, val |-> "W"],
       [key |-> ch.x, val |-> "K S"],
       [key |-> ch.y, val |-> "Y"],
       [key |-> ch.z, val |-> "S"] >>

\* _DIGRAPHS, in the order of the dictionary
Digraphs ==
    << [key |-> <<ch.c, ch.h>>, val |-> "CH"],
       [key |-> <<ch.l, ch.l>>, val |-> "Y"],
       [key |-> <<ch.q, ch.u>>, val |-> "K"],
       [key |-> <<ch.r, ch.r>>, val |-> "RR"] >>

\* _SPECIAL_CASES, in the order of the dictionary; val is the value split()
SpecialCases ==
    << [key |-> <<ch.c, ch.e>>, val |-> <<"S", "EH">>],
       [key |-> <<ch.c, ch.i>>, val |-> <<"S", "IY">>],
       [key |-> <<ch.g, ch.e>>, val |-> <<"HH", "EH">>],
       [key |-> <<ch.g, ch.i>>, val |-> <<"HH", "IY">>],
       [key |-> <<ch.g, ch.u, ch.e>>, val |-> <<"G", "EH">>],
       [key |-> <<ch.g, ch.u, ch.i>>, val |-> <<"G", "IY">>],
       [key |-> <<ch.g, ch.uu, ch.e>>, val |-> <<"G", "W", "EH">>],
       [key |-> <<ch.g, ch.uu, ch.i>>, val |-> <<"G", "W", "IY">>],
       [key |-> <<ch.q, ch.u, ch.e>>, val |-> <<"K", "EH">>],
       [key |-> <<ch.q, ch.u, ch.i>>, val |-> <<"K", "IY">>],
       [key |-> <<ch.y, ch.a>>, val |-> <<"Y", "AA">>],
       [key |-> <<ch.y, ch.e>>, val |-> <<"Y", "EH">>],
       [key |-> <<ch.y, ch.i>>, val |-> <<"Y", "IY">>],
       [key |-> <<ch.y, ch.o>>, val |-> <<"Y", "OW">>],
       [key |-> <<ch.y, ch.u>>, val |-> <<"Y", "UW">>] >>

\* _EXCEPTION_WORDS; val is the literal phoneme string, as its space-separated
\* tokens
ExceptionWords ==
    << [key |-> <<ch.m, ch.e, ch.x, ch.i, ch.c, ch.o>>,
        val |-> <<"M", "EH1", "HH", "IY", "K", "OW">>],
       [key |-> <<ch.m, ch.e_, ch.x, ch.i, ch.c, ch.o>>,
        val |-> <<"M", "EH1", "HH", "IY", "K", "OW">>],
       [key |-> <<ch.t, ch.e, ch.x, ch.a, ch.s>>,
        val |-> <<"T", "EH1", "HH", "AA", "S">>],
       [key |-> <<ch.p, ch.u, ch.e, ch.r, ch.t, ch.o, ch.sp, ch.r, ch.i, ch.c, ch.o>>,
        val |-> <<"P", "W", "EH1", "R", "T", "OW", "RR", "IY1", "K", "OW">>],
       [key |-> <<ch.b, ch.a, ch.r, ch.c, ch.e, ch.l, ch.o, ch.n, ch.a>>,
        val |-> <<"B", "AA", "R", "S", "EH", "L", "OW1", "N", "AA">>],
       [key |-> <<ch.v, ch.a, ch.l, ch.e, ch.n, ch.c, ch.i, ch.a>>,
        val |-> <<"B", "AA", "L", "EH1", "N", "S", "IY", "AA">>],
       [key |-> <<ch.g, ch.u, ch.e, ch.r, ch.r, ch.e, ch.r, ch.o>>,
        val |-> <<"G", "EH", "RR", "EH1", "R", "OW">>],
       [key |-> <<ch.u, ch.r, ch.u, ch.g, ch.u, ch.a, ch.y>>,
        val |-> <<"UW", "R", "UW", "G", "W", "AA1", "Y">>],
       [key |-> <<ch.p, ch.a, ch.r, ch.a, ch.g, ch.u, ch.a, ch.y>>,
        val |-> <<"P", "AA", "R", "AA", "G", "W", "AA1", "Y">>],
       [key |-> <<ch.b, ch.u, ch.e, ch.n, ch.o, ch.s, ch.sp, ch.a, ch.i, ch.r, ch.e, ch.s>>,
        val |-> <<"B", "W", "EH1", "N", "OW", "S", "AA1", "IY", "R", "EH", "S">>],
       [key |-> <<ch.h, ch.a, ch.v, ch.a, ch.n, ch.a>>,
        val |-> <<"AA", "B", "AA1", "N", "AA">>],
       [key |-> <<ch.h, ch.a, ch.b, ch.a, ch.n, ch.a>>,
        val |-> <<"AA", "B", "AA1", "N", "AA">>],
       [key |-> <<ch.v, ch.e, ch.n, ch.e, ch.z, ch.u, ch.e, ch.l, ch.a>>,
        val |-> <<"B", "EH", "N", "EH", "S", "W", "EH1", "L", "AA">>],
       [key |-> <<ch.c, ch.h, ch.i, ch.l, ch.e>>,
        val |-> <<"CH", "IY1", "L", "EH">>],
       [key |-> <<ch.a, ch.r, ch.g, ch.e, ch.n, ch.t, ch.i, ch.n, ch.a>>,
        val |-> <<"AA", "R", "HH", "EH", "N", "T", "IY1", "N", "AA">>],
       [key |-> <<ch.a, ch.n, ch.d, ch.a, ch.l, ch.u, ch.c, ch.i_, ch.a>>,
        val |-> <<"AA", "N", "D", "AA", "L", "UW", "S", "IY1", "AA">>],
       [key |-> <<ch.s, ch.e, ch.v, ch.i, ch.l, ch.l, ch.a>>,
        val |-> <<"S", "EH", "B", "IY1", "Y", "AA">>],
       [key |-> <<ch.e, ch.s, ch.p, ch.a, ch.nn, ch.a>>,
        val |-> <<"EH", "S", "P", "AA1", "NY", "AA">>],
       [key |-> <<ch.p, ch.a, ch.e, ch.l, ch.l, ch.a>>,
        val |-> <<"P", "AA", "EH1", "Y", "AA">>],
       [key |-> <<ch.g, ch.u, ch.i, ch.l, ch.l, ch.e, ch.r, ch.m, ch.o>>,
        val |-> <<"G", "IY", "Y", "EH1", "R", "M", "OW">>] >>

\* The index of the entry of table tbl with key k, 0 when there is none.
Lookup(tbl, k) ==
    IF \E n \in 1..Len(tbl) : tbl[n].key = k
    THEN CHOOSE n \in 1..Len(tbl) : tbl[n].key = k
    ELSE 0

\* str.lower(), on the code points up to U+00FF
Lower(c) ==
    IF (c >= 65 /\ c <= 90) \/ (c >= 192 /\ c <= 222 /\ c # 215) THEN c + 32 ELSE c

\* \s of the regular expressions and the separators of str.split(), on the
\* code points up to U+00FF
IsSpace(c) == (c >= 9 /\ c <= 13) \/ (c >= 28 /\ c <= 32) \/ c \in {133, 160}

\* \w of the regular expressions: letters, digits and the underscore
IsWordChar(c) ==
    isalpha(c) \/ (c >= 48 /\ c <= 57) \/ c = 95
        \/ c \in {178, 179, 185, 188, 189, 190}

\* _preprocess_text: lower(), then drop what [^\w\s...] matches
preprocess_text(txt) ==
    LET low == [k \in 1..Len(txt) |-> Lower(txt[k])]
    IN  SelectSeq(low, LAMBDA c : IsWordChar(c) \/ IsSpace(c)
                                    \/ c \in StressedVowels \cup {ch.uu, ch.nn})

\* str.split(' ') in the place of str.split(): every single space separates,
\* so that a leading, a trailing or a doubled space gives an empty word.
RECURSIVE SplitEveryFrom(_, _, _)
SplitEveryFrom(txt, p, cur) ==
    IF p > Len(txt) THEN <<cur>>
    ELSE IF txt[p] = ch.sp
         THEN <<cur>> \o SplitEveryFrom(txt, p + 1, <<>>)
         ELSE SplitEveryFrom(txt, p + 1, Append(cur, txt[p]))

SplitOnEverySpace(txt) == SplitEveryFrom(txt, 1, <<>>)

\* str.split(): the maximal runs of non-space characters, from position p on,
\* cur being the run collected so far
RECURSIVE SplitFrom(_, _, _)
SplitFrom(txt, p, cur) ==
    IF p > Len(txt) THEN (IF cur = <<>> THEN <<>> ELSE <<cur>>)
    ELSE IF IsSpace(txt[p])
         THEN (IF cur = <<>> THEN <<>> ELSE <<cur>>) \o SplitFrom(txt, p + 1, <<>>)
         ELSE SplitFrom(txt, p + 1, Append(cur, txt[p]))

Split(txt) == SplitFrom(txt, 1, <<>>)

\* word.replace(key, "_" + key + "_") from position p on
RECURSIVE MarkFrom(_, _, _)
MarkFrom(word, key, p) ==
    IF p > Len(word) THEN <<>>
    ELSE IF p + Len(key) - 1 <= Len(word) /\ SubSeq(word, p, p + Len(key) - 1) = key
         THEN <<ch.us>> \o key \o <<ch.us>> \o MarkFrom(word, key, p + Len(key))
         ELSE <<word[p]>> \o MarkFrom(word, key, p + 1)

\* the replace loop over the keys of table tbl, from its n-th key on
RECURSIVE MarkAll(_, _, _)
MarkAll(word, tbl, n) ==
    IF n > Len(tbl) THEN word
    ELSE MarkAll(MarkFrom(word, tbl[n].key, 1), tbl, n + 1)

\* _handle_special_cases, for a word that is no key of _EXCEPTION_WORDS (the
\* only words _word_to_phonemes passes to it)
handle_special_cases(word) == MarkAll(MarkAll(word, Digraphs, 1), SpecialCases, 1)

\* ComboLenAt with the loop starting at combo_len = 2: a combination of three
\* characters is never looked up.
ComboLenAtNoTriples(pw, i) ==
    LET hit(n) == i + n - 1 <= Len(pw)
                    /\ Lookup(SpecialCases, SubSeq(pw, i, i + n - 1)) # 0
    IN  IF hit(2) THEN 2 ELSE IF hit(1) THEN 1 ELSE 0

\* The length of the special combination the for loop over combo_len = 3, 2, 1
\* finds at position i, 0 when it finds none.
ComboLenAt(pw, i) ==
    LET hit(n) == i + n - 1 <= Len(pw)
                    /\ Lookup(SpecialCases, SubSeq(pw, i, i + n - 1)) # 0
    IN  IF hit(3) THEN 3 ELSE IF hit(2) THEN 2 ELSE IF hit(1) THEN 1 ELSE 0

\* Emit with the single-character branch left out: a character that starts
\* no digraph and no special combination is passed over.
RECURSIVE EmitWithoutSingles(_, _, _)
EmitWithoutSingles(pw, i, phonemes) ==
    IF i > Len(pw) THEN phonemes
    ELSE IF pw[i] = ch.us THEN EmitWithoutSingles(pw, i + 1, phonemes)
    ELSE IF i < Len(pw) /\ Lookup(Digraphs, SubSeq(pw, i, i + 1)) # 0
         THEN EmitWithoutSingles(pw, i + 2,
                   Append(phonemes, Digraphs[Lookup(Digraphs, SubSeq(pw, i, i + 1))].val))
    ELSE IF ComboLenAt(pw, i) # 0
         THEN LET n == ComboLenAt(pw, i)
              IN  EmitWithoutSingles(pw, i + n,
                       phonemes \o SpecialCases[Lookup(SpecialCases,
                                                       SubSeq(pw, i, i + n - 1))].val)
    ELSE EmitWithoutSingles(pw, i + 1, phonemes)

\* The while loop of _word_to_phonemes from position i, phonemes being the list
\* built so far.
RECURSIVE Emit(_, _, _)
Emit(pw, i, phonemes) ==
    IF i > Len(pw) THEN phonemes
    ELSE IF pw[i] = ch.us THEN Emit(pw, i + 1, phonemes)
    ELSE IF i < Len(pw) /\ Lookup(Digraphs, SubSeq(pw, i, i + 1)) # 0
         THEN Emit(pw, i + 2,
                   Append(phonemes, Digraphs[Lookup(Digraphs, SubSeq(pw, i, i + 1))].val))
    ELSE IF ComboLenAt(pw, i) # 0
         THEN LET n == ComboLenAt(pw, i)
              IN  Emit(pw, i + n,
                       phonemes \o SpecialCases[Lookup(SpecialCases,
                                                       SubSeq(pw, i, i + n - 1))].val)
    ELSE IF Lookup(SpanishPhonemes, pw[i]) # 0
            /\ SpanishPhonemes[Lookup(SpanishPhonemes, pw[i])].val # ""
         THEN Emit(pw, i + 1,
                   Append(phonemes, SpanishPhonemes[Lookup(SpanishPhonemes, pw[i])].val))
    ELSE Emit(pw, i + 1, phonemes)

\* One iteration of the while loop at position i <= Len(pw): the number of
\* positions the index advances by and the list items appended.  (The branch
\* for "marked special cases" asks for processed_word[i] == '_' after the
\* branch before it has excluded that; it is never entered.)
EmitStep(pw, i) ==
    IF pw[i] = ch.us THEN [at |-> i, len |-> 1, out |-> <<>>]
    ELSE IF i < Len(pw) /\ Lookup(Digraphs, SubSeq(pw, i, i + 1)) # 0
         THEN [at |-> i, len |-> 2,
               out |-> <<Digraphs[Lookup(Digraphs, SubSeq(pw, i, i + 1))].val>>]
    ELSE IF ComboLenAt(pw, i) # 0
         THEN [at |-> i, len |-> ComboLenAt(pw, i),
               out |-> SpecialCases[Lookup(SpecialCases,
                          SubSeq(pw, i, i + ComboLenAt(pw, i) - 1))].val]
    ELSE IF Lookup(SpanishPhonemes, pw[i]) # 0
            /\ SpanishPhonemes[Lookup(SpanishPhonemes, pw[i])].val # ""
         THEN [at |-> i, len |-> 1,
               out |-> <<SpanishPhonemes[Lookup(SpanishPhonemes, pw[i])].val>>]
    ELSE [at |-> i, len |-> 1, out |-> <<>>]

\* The iterations of the while loop from position i on, in order.
RECURSIVE EmitSteps(_, _)
EmitSteps(pw, i) ==
    IF i > Len(pw) THEN <<>>
    ELSE <<EmitStep(pw, i)>> \o EmitSteps(pw, i + EmitStep(pw, i).len)

\* _VOWEL_CLUSTER_RE.findall: the maximal runs of vowels, from position p on
RECURSIVE ClustersFrom(_, _, _)
ClustersFrom(word, p, cur) ==
    IF p > Len(word) THEN (IF cur = <<>> THEN <<>> ELSE <<cur>>)
    ELSE IF word[p] \in Vowels
         THEN ClustersFrom(word, p + 1, Append(cur, word[p]))
         ELSE (IF cur = <<>> THEN <<>> ELSE <<cur>>) \o ClustersFrom(word, p + 1, <<>>)

\* the diphthong adjustment of _count_syllables for the clusters from n on
RECURSIVE DiphthongAdjust(_, _)
DiphthongAdjust(clusters, n) ==
    IF n > Len(clusters) THEN 0
    ELSE LET cl == clusters[n]
             weak == \E k \in 1..Len(cl) : cl[k] \in {ch.i, ch.u, ch.i_, ch.u_}
             strong == \E k \in 1..Len(cl) :
                          cl[k] \in {ch.a, ch.e, ch.o, ch.a_, ch.e_, ch.o_}
         IN  (IF Len(cl) > 1 /\ weak /\ strong THEN Len(cl) - 1 ELSE 0)
                + DiphthongAdjust(clusters, n + 1)

\* _count_syllables
count_syllables(word) ==
    LET noh == SelectSeq(word, LAMBDA c : c # ch.h)
        clusters == ClustersFrom(noh, 1, <<>>)
        syllable_count == Len(clusters) - DiphthongAdjust(clusters, 1)
    IN  IF syllable_count < 1 THEN 1 ELSE syllable_count

\* _find_stress_syllable (word is not empty)
find_stress_syllable(word) ==
    LET n == Len(word)
        rev(k) == word[n - k]        \* reversed(word), 0-based
    IN  IF \E k \in 1..n : word[k] \in StressedVowels
        THEN LET k0 == CHOOSE k \in 0..(n - 1) :
                          /\ rev(k) \in StressedVowels
                          /\ \A j \in 0..(k - 1) : rev(j) \notin StressedVowels
                 cnt == count_syllables(word) - 1
             IN  IF k0 \div 2 < cnt THEN k0 \div 2 ELSE cnt
        ELSE IF word[n] \in {ch.a, ch.e, ch.i, ch.o, ch.u, ch.a_, ch.e_, ch.i_,
                             ch.o_, ch.u_, ch.n, ch.s}
             THEN 1
             ELSE 0

\* _find_stress_syllable raises IndexError: no character is a stressed vowel
\* and word[-1] is read on the empty word.
FindStressRaises(word) ==
    /\ \A k \in 1..Len(word) : word[k] \notin StressedVowels
    /\ Len(word) = 0

\* '1' in p, for the list items the tables can produce
HasStressMark(p) == p \in {"AA1", "EH1", "IY1", "OW1", "UW1"}

\* p + '1', for the vowel phonemes it is applied to
AddStressMark(p) ==
    CASE p = "AA" -> "AA1" [] p = "EH" -> "EH1" [] p = "IY" -> "IY1"
      [] p = "OW" -> "OW1" [] p = "UW" -> "UW1"

\* _apply_spanish_stress_rules without the early return for a list that
\* already holds a stress marker.
ApplyStressIgnoringMarks(word, phonemes) ==
    LET syllable_count == count_syllables(word)
        stress_idx == find_stress_syllable(word)
        isv(k) == phonemes[k] \in {"AA", "EH", "IY", "OW", "UW"}
        nv == Cardinality({k \in 1..Len(phonemes) : isv(k)})
    IN  IF syllable_count <= 1 THEN phonemes
        ELSE IF nv > 0 /\ stress_idx < nv
             THEN LET pos == CHOOSE k \in 1..Len(phonemes) :
                                /\ isv(k)
                                /\ Cardinality({j \in (k + 1)..Len(phonemes) : isv(j)})
                                      = stress_idx
                  IN  [phonemes EXCEPT ![pos] = AddStressMark(phonemes[pos])]
             ELSE phonemes

\* _apply_spanish_stress_rules
apply_spanish_stress_rules(word, phonemes) ==
    IF \E k \in 1..Len(phonemes) : HasStressMark(phonemes[k]) THEN phonemes
    ELSE LET syllable_count == count_syllables(word)
             stress_idx == find_stress_syllable(word)
             isv(k) == phonemes[k] \in {"AA", "EH", "IY", "OW", "UW"}
             nv == Cardinality({k \in 1..Len(phonemes) : isv(k)})
         IN  IF syllable_count <= 1 THEN phonemes
             ELSE IF nv > 0 /\ stress_idx < nv
                  THEN LET pos == CHOOSE k \in 1..Len(phonemes) :
                                     /\ isv(k)
                                     /\ Cardinality({j \in (k + 1)..Len(phonemes) : isv(j)})
                                           = stress_idx
                       IN  [phonemes EXCEPT ![pos] = AddStressMark(phonemes[pos])]
                  ELSE phonemes

\* _apply_spanish_stress_rules raises: no item has a stress marker, so
\* _find_stress_syllable is called (before syllable_count is looked at), and
\* it raises.  The index vowel_phonemes[-(stress_idx + 1)] is read only when
\* stress_idx < len(vowel_phonemes) and is then in range.
ApplyStressRaises(word, phonemes) ==
    /\ ~(\E k \in 1..Len(phonemes) : HasStressMark(phonemes[k]))
    /\ FindStressRaises(word)

\* _word_to_phonemes raises
WordToPhonemesRaises(word) ==
    /\ Lookup(ExceptionWords, word) = 0
    /\ ApplyStressRaises(word, Emit(handle_special_cases(word), 1, <<>>))

\* _word_to_phonemes with the exception dictionary not consulted.
WordToPhonemesNoExceptions(word) ==
    apply_spanish_stress_rules(word, Emit(handle_special_cases(word), 1, <<>>))

\* _word_to_phonemes
word_to_phonemes(word) ==
    IF Lookup(ExceptionWords, word) # 0
    THEN ExceptionWords[Lookup(ExceptionWords, word)].val
    ELSE apply_spanish_stress_rules(word, Emit(handle_special_cases(word), 1, <<>>))

\* The space-separated tokens of ' '.join(items): every list item is one
\* token, but for "K S" (the item of x), which is two.
RECURSIVE JoinTokens(_)
JoinTokens(items) ==
    IF items = <<>> THEN <<>>
    ELSE (IF items[1] = "K S" THEN <<"K", "S">> ELSE <<items[1]>>)
            \o JoinTokens(Tail(items))

RECURSIVE Concat(_)
Concat(lists) == IF lists = <<>> THEN <<>> ELSE lists[1] \o Concat(Tail(lists))

\* The list _word_to_phonemes returns for each word of text.split()
WordPhonemes(pre) ==
    LET words == Split(pre) IN [k \in 1..Len(words) |-> word_to_phonemes(words[k])]

\* spanish_text_to_phonemes raises: the text is no key of the exception
\* dictionary and _word_to_phonemes raises for one of its words.
SpanishTextRaises(txt) ==
    LET pre == preprocess_text(txt)
    IN  /\ Lookup(ExceptionWords, pre) = 0
        /\ \E k \in 1..Len(Split(pre)) : WordToPhonemesRaises(Split(pre)[k])

\* spanish_text_to_phonemes: the returned string, as its space-separated tokens
spanish_text_to_phonemes(txt) ==
    LET pre == preprocess_text(txt)
    IN  IF Lookup(ExceptionWords, pre) # 0
        THEN ExceptionWords[Lookup(ExceptionWords, pre)].val
        ELSE JoinTokens(Concat(WordPhonemes(pre)))

\* The words of the texts given to the Spanish engine: keys of the exception
\* dictionary as written, capitalised and with punctuation, the two words of a
\* phrase key, and words that take the algorithmic path.
EsLexicon ==
    { <<ch.m, ch.e_, ch.x, ch.i, ch.c, ch.o>>,
      <<ch.M, ch.e_, ch.x, ch.i, ch.c, ch.o>>,
      <<ch.c, ch.h, ch.i, ch.l, ch.e, ch.bang>>,
      <<ch.p, ch.u, ch.e, ch.r, ch.t, ch.o>>,
      <<ch.r, ch.i, ch.c, ch.o>>,
      <<ch.c, ch.a, ch.s, ch.a>>,
      <<ch.g, ch.u, ch.e, ch.r, ch.r, ch.a>>,
      <<ch.a_, ch.r, ch.b, ch.o, ch.l>>,
      <<ch.q, ch.u, ch.e, ch.s, ch.o>>,
      <<ch.h>>,
      <<ch.f, ch.a, ch.m, ch.i, ch.l, ch.i, ch.a>>,
      <<ch.p, ch.a, ch.p, ch.e, ch.l>> }

\* Small alphabets of the Spanish engine's inputs.  StressChars: a strong and
\* a weak vowel, an accented vowel, the silent h, a consonant of the "vowel, n
\* or s" ending and one of the other ending.  ComboChars: the characters of
\* the special combinations in g and q.  DropChars: characters that are kept
\* by _preprocess_text and are in no table (a digit, the underscore, a letter
\* that is not Spanish), a separator, a silent and a sounded letter.
StressChars == {ch.a, ch.i, ch.a_, ch.n, ch.l, ch.h}

ComboChars == {ch.g, ch.u, ch.uu, ch.e, ch.i, ch.q}

DropChars == {ch.a, ch.h, ch.five, ch.us, ch.cc, ch.sp}

RECURSIVE JoinWords(_)
JoinWords(ws) ==
    IF ws = <<>> THEN <<>>
    ELSE IF Len(ws) = 1 THEN ws[1]
    ELSE ws[1] \o <<ch.sp>> \o JoinWords(Tail(ws))

EsTexts ==
    {JoinWords(ws) : ws \in SeqsUpTo(EsLexicon, MaxWords)}
        \cup SeqsUpTo(StressChars, MaxWordLen)
        \cup SeqsUpTo(ComboChars, MaxWordLen)
        \cup SeqsUpTo(DropChars, MaxWordLen)

----------------------------------------------------------------------------
(* The state machine *)

Ops == {"get_segment", "chn_eng_g2p", "cjekfd_cleaners", "special_map",
        "spanish_text_to_phonemes"}

Init ==
    /\ op \in Ops
    /\ pc = "start"
    /\ text \in (CASE op = "get_segment" ->
                        SeqsUpTo(SegChars, MaxLen) \cup {HolaMundo, NiHaoHelloWorld}
                   [] op = "chn_eng_g2p" -> SeqsUpTo(SegChars, MaxDispatchLen)
                   [] op = "spanish_text_to_phonemes" -> EsTexts
                   [] OTHER -> {<<>>})
    /\ types = <<>>
    /\ segments = <<>>
    /\ index = 0
    /\ all_phoneme = <<>>
    /\ all_tokens = <<>>
    /\ acc_phoneme = <<>>
    /\ acc_tokens = <<>>
    /\ err = ""
    /\ calls = {}
    /\ sm_text \in (IF op = "special_map" THEN MapTexts ELSE {<<>>})
    /\ sm_rule = 0
    /\ sm_pass = 0
    /\ sm_first = <<>>
    /\ es_word_out = <<>>
    /\ es_out = <<>>

smvars == <<sm_text, sm_rule, sm_pass, sm_first>>

esvars == <<es_word_out, es_out>>

\* get_segment(text), called on its own
GetSegment ==
    /\ op = "get_segment" /\ pc = "start"
    /\ types' = SecondPass(text)
    /\ segments' = get_segment(text)
    /\ pc' = "done"
    /\ UNCHANGED <<op, text, index, all_phoneme, all_tokens, acc_phoneme,
                   acc_tokens, err, calls>>
    /\ UNCHANGED <<smvars, esvars>>

\* cjekfd_cleaners(text, sentence, language, text_tokenizers), called on its own
Cleaners ==
    /\ op = "cjekfd_cleaners" /\ pc = "start"
    /\ \E language \in DirectLanguages :
          IF CleanerRaises(language)
          THEN /\ err' = "Unknown language"
               /\ pc' = "raised"
               /\ calls' = calls
          ELSE /\ calls' = calls \cup {CleanerKeys(language)}
               /\ pc' = "done"
               /\ err' = err
    /\ UNCHANGED <<op, text, types, segments, index, all_phoneme, all_tokens,
                   acc_phoneme, acc_tokens>>
    /\ UNCHANGED <<smvars, esvars>>

\* chn_eng_g2p: segments = get_segment(text); all_phoneme = ""; all_tokens = []
G2PStart ==
    /\ op = "chn_eng_g2p" /\ pc = "start"
    /\ types' = SecondPass(text)
    /\ segments' = get_segment(text)
    /\ index' = 1
    /\ pc' = IF Len(get_segment(text)) = 0 THEN "done" ELSE "loop"
    /\ UNCHANGED <<op, text, all_phoneme, all_tokens, acc_phoneme, acc_tokens,
                   err, calls>>
    /\ UNCHANGED <<smvars, esvars>>

\* TrimGuard with the Spanish case forgotten.
TrimGuardEnglishOnly(seg, idx, n) == seg.lang = "en" /\ idx = n

\* The condition of the trimming `if`, evaluated left to right on the
\* accumulated string ap; all_phoneme[-2] raises IndexError when len(ap) < 2.
TrimGuard(seg, idx, n) == seg.lang \in {"en", "es"} /\ idx = n

TrimIndexError(seg, idx, n, ap) == TrimGuard(seg, idx, n) /\ Len(ap) < 2

TrimApplies(seg, idx, n, ap) ==
    TrimGuard(seg, idx, n) /\ Len(ap) >= 2 /\ ap[Len(ap) - 1] = "_"

\* One iteration of the loop whose g2p call reaches the `else` of
\* cjekfd_cleaners: the exception leaves chn_eng_g2p, nothing is returned.
G2PUnknownLanguage ==
    /\ op = "chn_eng_g2p" /\ pc = "loop"
    /\ CleanerRaises(segments[index].lang)
    /\ err' = "Unknown language"
    /\ pc' = "raised"
    /\ UNCHANGED <<op, text, types, segments, index, all_phoneme, all_tokens,
                   acc_phoneme, acc_tokens, calls>>
    /\ UNCHANGED <<smvars, esvars>>

\* One iteration of the loop for a handled language.
G2PIteration ==
    /\ op = "chn_eng_g2p" /\ pc = "loop"
    /\ ~CleanerRaises(segments[index].lang)
    /\ \E phoneme \in PhonemeOutputs, token \in TokenOutputs :
          LET seg == segments[index]
              n   == Len(segments)
              ap  == all_phoneme \o phoneme \o <<"|">>
              at  == all_tokens \o token
          IN  /\ calls' = calls \cup {CleanerKeys(seg.lang)}
              /\ acc_phoneme' = ap
              /\ acc_tokens' = at
              /\ IF TrimIndexError(seg, index, n, ap)
                 THEN /\ all_phoneme' = ap
                      /\ all_tokens' = at
                      /\ err' = "IndexError"
                      /\ pc' = "raised"
                      /\ index' = index
                 ELSE /\ all_phoneme' = IF TrimApplies(seg, index, n, ap)
                                        THEN SubSeq(ap, 1, Len(ap) - 2) ELSE ap
                      /\ all_tokens' = IF TrimApplies(seg, index, n, ap)
                                       THEN SubSeq(at, 1, Len(at) - 1) ELSE at
                      /\ err' = err
                      /\ index' = index + 1
                      /\ pc' = IF index = n THEN "done" ELSE "loop"
    /\ UNCHANGED <<op, text, types, segments>>
    /\ UNCHANGED <<smvars, esvars>>

g2pvars == <<text, types, segments, index, all_phoneme, all_tokens,
             acc_phoneme, acc_tokens, err, calls>>

\* special_map(text) is entered: the for loop starts at the first rule.
SpecialMapCall ==
    /\ op = "special_map" /\ pc = "start"
    /\ sm_rule' = 1
    /\ sm_pass' = 1
    /\ pc' = "while"
    /\ UNCHANGED <<op, sm_text, sm_first>>
    /\ UNCHANGED <<g2pvars, esvars>>

\* The body of the while loop: the pattern still matches, substitute.
SpecialMapSubstitute ==
    /\ op = "special_map" /\ pc = "while"
    /\ Search(SpecialMapRules[sm_rule].pat, sm_text)
    /\ sm_text' = Sub(SpecialMapRules[sm_rule].pat, SpecialMapRules[sm_rule].rep,
                      sm_text)
    /\ UNCHANGED <<op, pc, sm_rule, sm_pass, sm_first>>
    /\ UNCHANGED <<g2pvars, esvars>>

\* The while condition is false: the for loop moves to the next rule, or
\* special_map returns after the last one.
SpecialMapNextRule ==
    /\ op = "special_map" /\ pc = "while"
    /\ ~Search(SpecialMapRules[sm_rule].pat, sm_text)
    /\ IF sm_rule < Len(SpecialMapRules)
       THEN sm_rule' = sm_rule + 1 /\ pc' = pc
       ELSE sm_rule' = sm_rule /\ pc' = "returned"
    /\ UNCHANGED <<op, sm_text, sm_pass, sm_first>>
    /\ UNCHANGED <<g2pvars, esvars>>

\* special_map is applied to the value it returned.
SpecialMapAgain ==
    /\ op = "special_map" /\ pc = "returned" /\ sm_pass = 1
    /\ sm_first' = sm_text
    /\ sm_pass' = 2
    /\ sm_rule' = 1
    /\ pc' = "while"
    /\ UNCHANGED <<op, sm_text>>
    /\ UNCHANGED <<g2pvars, esvars>>

\* spanish_text_to_phonemes(text); the per-word loop is not entered when the
\* whole preprocessed text is a key of the exception dictionary.
SpanishTextToPhonemes ==
    /\ op = "spanish_text_to_phonemes" /\ pc = "start"
    /\ IF SpanishTextRaises(text)
       THEN /\ err' = "IndexError"
            /\ pc' = "raised"
            /\ UNCHANGED esvars
       ELSE /\ es_word_out' = IF Lookup(ExceptionWords, preprocess_text(text)) # 0
                              THEN <<>> ELSE WordPhonemes(preprocess_text(text))
            /\ es_out' = spanish_text_to_phonemes(text)
            /\ pc' = "done"
            /\ err' = err
    /\ UNCHANGED <<op, text, types, segments, index, all_phoneme, all_tokens,
                   acc_phoneme, acc_tokens, calls, smvars>>

Next ==
    \/ GetSegment
    \/ Cleaners
    \/ G2PStart
    \/ G2PUnknownLanguage
    \/ G2PIteration
    \/ SpecialMapCall
    \/ SpecialMapSubstitute
    \/ SpecialMapNextRule
    \/ SpecialMapAgain
    \/ SpanishTextToPhonemes

Spec == Init /\ [][Next]_vars

----------------------------------------------------------------------------
(* Helpers of the properties *)

RECURSIVE Flatten(_)
Flatten(segs) ==
    IF segs = <<>> THEN <<>> ELSE segs[1].text \o Flatten(Tail(segs))

\* The index of the segment that holds position i of the text.
RECURSIVE SegIndexFrom(_, _, _)
SegIndexFrom(segs, i, k) ==
    IF k >= Len(segs) \/ i <= Len(segs[k].text) THEN k
    ELSE SegIndexFrom(segs, i - Len(segs[k].text), k + 1)

SegIndexAt(i) == SegIndexFrom(segments, i, 1)

SegLangAt(i) == segments[SegIndexAt(i)].lang

Segmented == op \in {"get_segment", "chn_eng_g2p"} /\ pc # "start"

Positions == 1..Len(text)

Between(i, j) == {k \in Positions : (i <= k /\ k <= j) \/ (j <= k /\ k <= i)}

\* i and j lie in the same maximal run of characters for which isalpha holds
SameWord(i, j) == \A k \in Between(i, j) : isalpha(text[k])

\* the characters the first pass can tag en or es
IsLetter(c) == is_alphabet(c) \/ is_spanish(c)

\* i and j lie in the same maximal run of ASCII letters and Spanish characters
SameLetterRun(i, j) == \A k \in Between(i, j) : IsLetter(text[k])

Returned == op = "chn_eng_g2p" /\ pc = "done"

\* the text is not empty and all its characters are Other characters
OnlyOther == text # <<>> /\ \A i \in Positions : is_other(text[i])

\* the text holds a Chinese character, an ASCII letter or a Spanish character
HasLanguageChar == \E i \in Positions : ~is_other(text[i])

\* the position of the first such character
FirstLanguagePos ==
    CHOOSE i \in Positions :
        ~is_other(text[i]) /\ \A j \in 1..(i - 1) : is_other(text[j])

\* the position of the text at which segment k starts
SegStart(k) == 1 + Len(Flatten(SubSeq(segments, 1, k - 1)))

\* spanish_text_to_phonemes has returned after its per-word loop
EsWordsDone ==
    /\ op = "spanish_text_to_phonemes" /\ pc = "done"
    /\ Lookup(ExceptionWords, preprocess_text(text)) = 0

\* the words the per-word loop ran over
EsWords == Split(preprocess_text(text))

\* the indices of the words that are no key of the exception dictionary
EsPlainWords == {k \in 1..Len(EsWords) : Lookup(ExceptionWords, EsWords[k]) = 0}

\* the list the emission scan builds for a word, before the stress rules
Scanned(word) == Emit(handle_special_cases(word), 1, <<>>)

\* the items of a list that carry the stress marker, in order
Marked(phonemes) == SelectSeq(phonemes, HasStressMark)

\* the characters of a word that are keys of _SPANISH_PHONEMES, in order
Mapped(word) == SelectSeq(word, LAMBDA c : Lookup(SpanishPhonemes, c) # 0)

\* the character is a key of _SPANISH_PHONEMES whose phoneme is empty (h)
IsSilent(c) ==
    Lookup(SpanishPhonemes, c) # 0 /\ SpanishPhonemes[Lookup(SpanishPhonemes, c)].val = ""

\* the character is a key of _SPANISH_PHONEMES whose phoneme is not empty
IsSounded(c) ==
    Lookup(SpanishPhonemes, c) # 0 /\ SpanishPhonemes[Lookup(SpanishPhonemes, c)].val # ""

\* the position in seq of its r-th character that is no underscore (the
\* processed word is the word with underscores put in, so the r-th such
\* character of the one is the r-th of the other)
NthCharPos(seq, r) ==
    CHOOSE i \in 1..Len(seq) :
        seq[i] # ch.us /\ Cardinality({j \in 1..i : seq[j] # ch.us}) = r

\* the position in the processed word pw of the character at position p of word
PosInProcessed(word, pw, p) ==
    NthCharPos(pw, Cardinality({j \in 1..p : word[j] # ch.us}))

\* the special combinations of three characters in g
GTriples ==
    { <<ch.g, ch.u, ch.e>>, <<ch.g, ch.u, ch.i>>,
      <<ch.g, ch.uu, ch.e>>, <<ch.g, ch.uu, ch.i>> }

\* the lengths of the keys of _SPECIAL_CASES that occur in pw at position i
MatchingComboLens(pw, i) ==
    {Len(SpecialCases[n].key) : n \in {m \in 1..Len(SpecialCases) :
        /\ i + Len(SpecialCases[m].key) - 1 <= Len(pw)
        /\ SubSeq(pw, i, i + Len(SpecialCases[m].key) - 1) = SpecialCases[m].key}}

SetMax(S) == CHOOSE x \in S : \A y \in S : y <= x

\* a list item without its stress marker
Unmark(p) ==
    CASE p = "AA1" -> "AA" [] p = "EH1" -> "EH" [] p = "IY1" -> "IY"
      [] p = "OW1" -> "OW" [] p = "UW1" -> "UW" [] OTHER -> p

\* the vowel items of a list, with or without the stress marker
IsVowelItem(p) == Unmark(p) \in {"AA", "EH", "IY", "OW", "UW"}

\* the positions of the vowel items of a list
VowelItems(phonemes) == {n \in 1..Len(phonemes) : IsVowelItem(phonemes[n])}

\* the positions of the vowel letters of a word
VowelLetters(word) == {i \in 1..Len(word) : word[i] \in Vowels}

\* the strong vowels a, e, o; i, u and u with diaeresis are weak
IsStrong(c) == c \in {ch.a, ch.e, ch.o, ch.a_, ch.e_, ch.o_}

\* i and j lie in one vowel cluster of w (w without its silent h)
SameCluster(w, i, j) ==
    \A m \in 1..Len(w) : ((i <= m /\ m <= j) \/ (j <= m /\ m <= i)) => w[m] \in Vowels

\* The syllable nuclei of w (a word without its silent h): every strong vowel
\* is one, a weak vowel next to it belongs to its syllable (a diphthong), and
\* a cluster of weak vowels only has its last vowel as its nucleus.
Nuclei(w) ==
    {i \in VowelLetters(w) :
        \/ IsStrong(w[i])
        \/ /\ \A j \in VowelLetters(w) : SameCluster(w, i, j) => ~IsStrong(w[j])
           /\ \A j \in VowelLetters(w) : SameCluster(w, i, j) => j <= i}

\* the element of the set of positions S that has n elements of S after it
NthFromEnd(S, n) == CHOOSE i \in S : Cardinality({j \in S : j > i}) = n

\* the element of the set of positions S that has n - 1 elements of S before it
NthOf(S, n) == CHOOSE i \in S : Cardinality({j \in S : j < i}) = n - 1

\* the accented vowels of a word, in order
Accents(word) == SelectSeq(word, LAMBDA c : c \in StressedVowels)

LastLang == segments[Len(segments)].lang

----------------------------------------------------------------------------
(* The properties *)

\* C1: concatenating the texts of the segments get_segment returns, in order,
\* gives back the input exactly.
C1_Partition == Segmented => Flatten(segments) = text

C1_Witness ==
    /\ op = "get_segment" /\ pc = "done"
    /\ Len(segments) >= 3
    /\ \E i \in Positions : is_other(text[i])

\* C2 (as claimed): the while loop of special_map terminates for every rule.
\* The loop is deterministic, so it can only terminate if a substitution made
\* while the pattern matches changes the text.
C2_SubstitutionMakesProgress ==
    (op = "special_map" /\ pc = "while"
        /\ Search(SpecialMapRules[sm_rule].pat, sm_text))
    => Sub(SpecialMapRules[sm_rule].pat, SpecialMapRules[sm_rule].rep, sm_text)
          # sm_text

\* C3 (as claimed): all characters of a maximal isalpha run lie in segments of
\* one language.
C3_WordNotSplit ==
    Segmented => \A i, j \in Positions : SameWord(i, j) => SegLangAt(i) = SegLangAt(j)

\* C3 (amended): a maximal run of ASCII letters and Spanish-specific
\* characters is never split: all its characters lie in one segment.
C3_LetterRunInOneSegment ==
    Segmented =>
        \A i, j \in Positions : SameLetterRun(i, j) => SegIndexAt(i) = SegIndexAt(j)

C3_Witness ==
    /\ op = "get_segment" /\ pc = "done"
    /\ Len(segments) >= 2
    /\ \E i \in Positions :
          /\ i < Len(text) /\ SameLetterRun(i, Len(text))
          /\ FirstPass(text)[i] = "en" /\ types[i] = "es"

\* C4 (as claimed): in a word (maximal isalpha run) that holds a Spanish-
\* specific character every alphabetic character is tagged es after the second
\* pass, and no word has characters both in an en and in an es segment.
C4_WholeWordSpanish ==
    Segmented =>
        \A i, j \in Positions : SameWord(i, j) =>
            /\ is_spanish(text[j]) => types[i] = "es"
            /\ ~(SegLangAt(i) = "en" /\ SegLangAt(j) = "es")

\* C4 (amended): in a word that holds a Spanish-specific character every
\* ASCII letter and every Spanish-specific character is tagged es after the
\* second pass, and no word has one of these letters in an en segment and
\* another in an es segment.
C4_WordLettersSpanish ==
    Segmented =>
        \A i, j \in Positions : (SameWord(i, j) /\ IsLetter(text[i])) =>
            /\ is_spanish(text[j]) => types[i] = "es"
            /\ IsLetter(text[j]) => ~(SegLangAt(i) = "en" /\ SegLangAt(j) = "es")

C4_Witness ==
    /\ op = "get_segment" /\ pc = "done"
    /\ \E i, j \in Positions :
          /\ SameWord(i, j) /\ is_spanish(text[j])
          /\ FirstPass(text)[i] = "en" /\ types[i] = "es"
          /\ \E k \in Positions : k > i /\ k > j /\ ~isalpha(text[k])

\* C5 (as claimed): get_segment of the empty string returns the empty list.
C5_EmptyInputNoSegments == (Segmented /\ text = <<>>) => segments = <<>>

\* C6 (as claimed): every call of cjekfd_cleaners reads only the tokenizer
\* registered under the key of the language it is called for.
C6_OwnTokenizer == \A c \in calls : c.seq = c.lang /\ c.ipa = c.lang

\* C7 (as claimed): chn_eng_g2p raises only for a segment whose language has
\* no registered handler.
C7_OnlyUnknownLanguageRaises ==
    (op = "chn_eng_g2p" /\ pc = "raised") =>
        /\ err = "Unknown language"
        /\ \E k \in 1..Len(segments) : segments[k].lang \notin Handled

\* C8: when chn_eng_g2p returns, and the last segment is en or es, and the
\* accumulated string has "_" as its second-to-last character, the returned
\* string is the accumulated one without that marker and the separator after
\* it, and the returned tokens are the accumulated ones without the last; in
\* every other case both are returned as accumulated; and after a non-final
\* segment nothing has been trimmed.
C8_EndTrimming ==
    /\ Returned =>
          IF LastLang \in {"en", "es"} /\ Len(acc_phoneme) >= 2
             /\ acc_phoneme[Len(acc_phoneme) - 1] = "_"
          THEN /\ all_phoneme \o <<"_", "|">> = acc_phoneme
               /\ all_tokens = SubSeq(acc_tokens, 1, Len(acc_tokens) - 1)
          ELSE all_phoneme = acc_phoneme /\ all_tokens = acc_tokens
    /\ (op = "chn_eng_g2p" /\ pc = "loop") =>
          all_phoneme = acc_phoneme /\ all_tokens = acc_tokens

C8_Witness ==
    /\ Returned
    /\ Len(segments) >= 2
    /\ LastLang = "es"
    /\ all_phoneme \o <<"_", "|">> = acc_phoneme
    /\ Len(all_tokens) + 1 = Len(acc_tokens)

\* C9: special_map is idempotent: when special_map(x) returns y and
\* special_map(y) returns, it returns y.
C9_Idempotent ==
    (op = "special_map" /\ pc = "returned" /\ sm_pass = 2) => sm_text = sm_first

C9_Witness ==
    /\ op = "special_map" /\ pc = "returned" /\ sm_pass = 2
    /\ sm_text = <<"B", " ", "L", "|", "B", " ", "L">>

\* C10: when the whole preprocessed text is a key of the exception dictionary
\* spanish_text_to_phonemes returns exactly that key's literal phoneme string;
\* otherwise every whitespace-delimited word that is a key contributes exactly
\* the tokens of its literal, in the word's place; "mexico" with an acute e
\* gives M EH1 HH IY K OW.
C10_ExceptionPrecedence ==
    (op = "spanish_text_to_phonemes" /\ pc = "done") =>
        LET pre == preprocess_text(text)
            words == Split(pre)
            IsKey(w) == \E n \in 1..Len(ExceptionWords) : ExceptionWords[n].key = w
            Literal(w) ==
                ExceptionWords[CHOOSE n \in 1..Len(ExceptionWords) :
                                  ExceptionWords[n].key = w].val
        IN  /\ IsKey(pre) => es_out = Literal(pre)
            /\ ~IsKey(pre) =>
                  /\ Len(es_word_out) = Len(words)
                  /\ \A k \in 1..Len(words) :
                        IsKey(words[k]) => es_word_out[k] = Literal(words[k])
                  /\ es_out = JoinTokens(Concat(es_word_out))
            /\ pre = <<ch.m, ch.e_, ch.x, ch.i, ch.c, ch.o>> =>
                  es_out = <<"M", "EH1", "HH", "IY", "K", "OW">>

C10_Witness ==
    /\ op = "spanish_text_to_phonemes" /\ pc = "done"
    /\ text # preprocess_text(text)
    /\ Len(es_word_out) = 2
    /\ es_word_out[1] = <<"M", "EH1", "HH", "IY", "K", "OW">>
    /\ es_word_out[2] # <<>>
    /\ Lookup(ExceptionWords, Split(preprocess_text(text))[2]) = 0

\* C11: for a word that is no key of the exception dictionary and holds a
\* written accent, the stress rules add nothing to the scanned list: the items
\* with a stress marker are exactly the items of the accented vowels, in
\* order, so that a word with one written accent has exactly one such item.
C11_AccentOnlyStress ==
    EsWordsDone =>
        \A k \in EsPlainWords :
            Accents(EsWords[k]) # <<>> =>
                /\ es_word_out[k] = Scanned(EsWords[k])
                /\ Len(Marked(es_word_out[k])) = Len(Accents(EsWords[k]))
                /\ \A n \in 1..Len(Accents(EsWords[k])) :
                      Marked(es_word_out[k])[n] =
                          SpanishPhonemes[Lookup(SpanishPhonemes,
                                                 Accents(EsWords[k])[n])].val
                /\ Len(Accents(EsWords[k])) = 1 => Len(Marked(es_word_out[k])) = 1

C11_Witness ==
    /\ EsWordsDone
    /\ text = <<ch.a, ch.l, ch.a_>>
    /\ es_word_out = << <<"AA", "L", "AA1">> >>

\* C12: spanish_text_to_phonemes returns and raises nothing, for every text;
\* in the scan of every word the index advances by at least one in every
\* iteration and the last iteration ends at the end of the word; and the
\* characters that are in no table contribute no item: the scanned list is
\* no longer than the word has characters of the base table, and empty when
\* it has none.
C12_NeverRaises ==
    op = "spanish_text_to_phonemes" =>
        /\ err = "" /\ pc # "raised"
        /\ EsWordsDone =>
              \A k \in EsPlainWords :
                  LET pw == handle_special_cases(EsWords[k])
                      steps == EmitSteps(pw, 1)
                  IN  /\ Len(steps) >= 1
                      /\ \A n \in 1..Len(steps) : steps[n].len >= 1
                      /\ steps[Len(steps)].at + steps[Len(steps)].len = Len(pw) + 1
                      /\ Len(es_word_out[k]) <= Len(Mapped(EsWords[k]))

C12_Witness ==
    /\ EsWordsDone
    /\ err = ""
    /\ text = <<ch.sp, ch.five, ch.sp, ch.a>>
    /\ es_word_out = << <<>>, <<"AA">> >>

\* C13 (as claimed): the list _word_to_phonemes returns for a word is empty
\* only if every character of the word maps to a silent phoneme.
C13_EmptyOnlyIfAllSilent ==
    EsWordsDone =>
        \A k \in EsPlainWords :
            es_word_out[k] = <<>> =>
                \A n \in 1..Len(EsWords[k]) : IsSilent(EsWords[k][n])

\* C13 (amended): the list _word_to_phonemes returns for a word is empty
\* exactly when no character of the word has a non-empty phoneme in the base
\* table, that is when every character is the silent h or is in no table (a
\* digit, the underscore, a letter that is not Spanish).
C13_EmptyIffNothingSounded ==
    EsWordsDone =>
        \A k \in EsPlainWords :
            es_word_out[k] = <<>> <=>
                \A n \in 1..Len(EsWords[k]) : ~IsSounded(EsWords[k][n])

C13_Witness ==
    /\ EsWordsDone
    /\ text = <<ch.h, ch.five, ch.sp, ch.a>>
    /\ es_word_out = << <<>>, <<"AA">> >>

\* C14: in a word that is no key of the exception dictionary, wherever gue,
\* gui, gue or gui with a diaeresis starts, one iteration of the scan starts
\* there, consumes the three characters and appends the combination's fixed
\* phonemes (G EH for gue); at every position the scan visits where keys of
\* _SPECIAL_CASES match, the longest of them is consumed and its phonemes are
\* appended; and the returned list is what these iterations appended, in
\* order, up to the stress marker.
C14_CombinationsWhole ==
    EsWordsDone =>
        \A k \in EsPlainWords :
            LET word == EsWords[k]
                pw == handle_special_cases(word)
                steps == EmitSteps(pw, 1)
                outs == [n \in 1..Len(steps) |-> steps[n].out]
            IN  /\ \A p \in 1..(Len(word) - 2) :
                      SubSeq(word, p, p + 2) \in GTriples =>
                          \E n \in 1..Len(steps) :
                              /\ steps[n].at = PosInProcessed(word, pw, p)
                              /\ steps[n].len = 3
                              /\ steps[n].out =
                                    SpecialCases[Lookup(SpecialCases,
                                                        SubSeq(word, p, p + 2))].val
                /\ \A n \in 1..Len(steps) :
                      MatchingComboLens(pw, steps[n].at) # {} =>
                          LET len == SetMax(MatchingComboLens(pw, steps[n].at))
                          IN  /\ steps[n].len = len
                              /\ steps[n].out =
                                    SpecialCases[Lookup(SpecialCases,
                                        SubSeq(pw, steps[n].at,
                                               steps[n].at + len - 1))].val
                /\ Len(es_word_out[k]) = Len(Concat(outs))
                /\ \A n \in 1..Len(es_word_out[k]) :
                      Unmark(es_word_out[k][n]) = Unmark(Concat(outs)[n])

C14_Witness ==
    /\ EsWordsDone
    /\ text = <<ch.g, ch.u, ch.e, ch.r, ch.r, ch.a>>
    /\ es_word_out = << <<"G", "EH", "RR", "AA">> >>

\* C15: get_segment returns a segment tagged other exactly when the text is
\* not empty and made of Other characters only, and that segment is then the
\* whole text and the only segment; when the text holds a character of a
\* language, the Other characters that open it lie in the first segment
\* together with the first character of a language, the first segment carries
\* that character's tag, and no segment is tagged other.
C15_OtherOnlyAlone ==
    Segmented =>
        /\ (\E k \in 1..Len(segments) : segments[k].lang = "other") <=> OnlyOther
        /\ OnlyOther => segments = <<Seg(text, "other")>>
        /\ HasLanguageChar =>
              /\ SegIndexAt(FirstLanguagePos) = 1
              /\ segments[1].lang = types[FirstLanguagePos]
              /\ \A k \in 1..Len(segments) : segments[k].lang \in {"zh", "en", "es"}

C15_Witness ==
    /\ op = "get_segment" /\ pc = "done"
    /\ Len(text) >= 3
    /\ is_other(text[1]) /\ is_other(text[2])
    /\ Len(segments) = 2
    /\ segments[1].lang = "zh"

\* C16 (as claimed): take a word that is no key of the exception dictionary,
\* has no written accent, and whose vowel letters are emitted one vowel item
\* each.  When it has more than one syllable, exactly one item of the
\* returned list carries the stress marker, and it is the item of the nucleus
\* of the penultimate syllable when the word ends in a vowel, n or s, and of
\* the final syllable otherwise, diphthongs counting as one syllable; when it
\* has one syllable or none, no item carries the marker.
C16_StressOnNucleus ==
    EsWordsDone =>
        \A k \in EsPlainWords :
            LET word == EsWords[k]
                out == es_word_out[k]
                w == SelectSeq(word, LAMBDA c : c # ch.h)
                nuclei == Nuclei(w)
                idx == IF word[Len(word)] \in {ch.a, ch.e, ch.i, ch.o, ch.u, ch.n, ch.s}
                       THEN 1 ELSE 0
                marked == {n \in 1..Len(out) : HasStressMark(out[n])}
            IN  (/\ Accents(word) = <<>>
                 /\ Cardinality(VowelItems(out)) = Cardinality(VowelLetters(w))) =>
                    IF Cardinality(nuclei) > 1
                    THEN LET nucleus == NthFromEnd(nuclei, idx)
                             rank == Cardinality({j \in VowelLetters(w) : j <= nucleus})
                         IN  marked = {NthOf(VowelItems(out), rank)}
                    ELSE marked = {}

\* C17: every segment after the first starts with a character whose own tag
\* is zh, en or es and differs from the language of the segment before it, and
\* carries that tag; an Other character that is not the first character of the
\* text lies in the segment of the character before it; so two consecutive
\* segments never carry the same language.  Two ideographs and a fullwidth
\* comma followed by "hello world" give a zh segment that ends with the comma
\* and the en segment "hello world".
C17_RunMerge ==
    Segmented =>
        /\ \A k \in 2..Len(segments) :
              /\ types[SegStart(k)] \in {"zh", "en", "es"}
              /\ types[SegStart(k)] # segments[k - 1].lang
              /\ segments[k].lang = types[SegStart(k)]
              /\ segments[k].lang # segments[k - 1].lang
        /\ \A i \in Positions :
              (i > 1 /\ is_other(text[i])) => SegIndexAt(i) = SegIndexAt(i - 1)
        /\ text = NiHaoHelloWorld =>
              segments = << Seg(<<ch.zh1, ch.zh2, ch.comma>>, "zh"),
                            Seg(<<ch.h, ch.e, ch.l, ch.l, ch.o, ch.sp,
                                  ch.w, ch.o, ch.r, ch.l, ch.d>>, "en") >>

C17_Witness ==
    /\ op = "get_segment" /\ pc = "done"
    /\ text = NiHaoHelloWorld
    /\ Len(segments) = 2
    /\ segments[1].lang = "zh" /\ segments[2].lang = "en"
    /\ is_other(text[Len(segments[1].text)])

\* C18: a character is tagged es only if the maximal alphabetic run that
\* holds it holds a Spanish-specific character; a text without such a
\* character has no es segment; "hola mundo" is one en segment.
C18_SpanishNeedsSpanishChar ==
    Segmented =>
        /\ \A i \in Positions :
              types[i] = "es" =>
                  \E j \in Positions : SameWord(i, j) /\ is_spanish(text[j])
        /\ (\A i \in Positions : ~is_spanish(text[i])) =>
              \A k \in 1..Len(segments) : segments[k].lang # "es"
        /\ text = HolaMundo => segments = <<Seg(HolaMundo, "en")>>
        /\ (op = "chn_eng_g2p" /\ \A i \in Positions : ~is_spanish(text[i])) =>
              \A c \in calls : c.lang # "es"

C18_Witness ==
    /\ op = "get_segment" /\ pc = "done"
    /\ text = <<ch.a, ch.sp, ch.nn, ch.a>>
    /\ segments = << Seg(<<ch.a, ch.sp>>, "en"), Seg(<<ch.nn, ch.a>>, "es") >>

\* C19: chn_eng_g2p raises "Unknown language" exactly for the texts that hold
\* no Chinese character, no ASCII letter and no Spanish character (the empty
\* text and the texts of Other characters only): for such a text the call
\* never returns, its only segment has a tag outside the handled set, and the
\* exception leaves the call before anything is accumulated; for every other
\* text all segment tags are zh, en or es and "Unknown language" is not
\* raised.
C19_UnknownLanguageAbort ==
    (op = "chn_eng_g2p" /\ pc # "start") =>
        /\ ~HasLanguageChar =>
              /\ pc \in {"loop", "raised"}
              /\ Len(segments) = 1 /\ segments[1].lang \notin Handled
              /\ pc = "loop" => index = 1 /\ CleanerRaises(segments[index].lang)
              /\ pc = "raised" => err = "Unknown language"
              /\ all_phoneme = <<>> /\ all_tokens = <<>> /\ calls = {}
        /\ HasLanguageChar =>
              /\ \A k \in 1..Len(segments) : segments[k].lang \in {"zh", "en", "es"}
              /\ err # "Unknown language"

C19_Witness ==
    /\ op = "chn_eng_g2p" /\ pc = "raised"
    /\ err = "Unknown language"
    /\ text = <<ch.sp, ch.cc>>
    /\ segments = <<Seg(text, "other")>>
    /\ all_phoneme = <<>>

====
